---- MODULE Spec2Model ----
(***************************************************************************)
(* The reactive engine of roscheri-frontend-library.                       *)
(*                                                                         *)
(* Two engines live in the repository:                                     *)
(*   - the synchronous engine with batch() (src/unnamed/part_003), driven  *)
(*     through render() (src/unnamed/part_004);                            *)
(*   - the microtask-deferred engine (src/src/reactive.ts).                *)
(*                                                                         *)
(* Every exported function is an operator from engine state to engine      *)
(* state; user functions (effect bodies, batch bodies, cleanups) are small *)
(* instruction sequences interpreted against the engine, so re-entrancy    *)
(* (a write inside an effect, a dispose inside a notification pass) is     *)
(* executed exactly as the call stack would execute it.                    *)
(***************************************************************************)
EXTENDS Integers, Sequences, FiniteSets, TLC

VARIABLES
  value,                \* signal -> stored value           (closure variable `value`)
  subscribers,          \* signal -> insertion-ordered set  (closure variable `subscribers`)
  comps,                \* heap of Computation objects, by allocation order
  listener,             \* module variable `listener` (0 = null)
  owner,                \* module variable `owner`    (0 = null)
  batchDepth,           \* module variable `batchDepth`          (synchronous engine)
  batchQueue,           \* module variable `batchQueue`          (synchronous engine)
  pendingFlush,         \* module variable `pendingFlush`        (deferred engine)
  pendingComputations,  \* module variable `pendingComputations` (deferred engine)
  microtasks,           \* callbacks handed to queueMicrotask that have not run yet
  handles,              \* user variables holding the dispose callback of each root
  created,              \* user-level: which top-level declarations have been executed
  op,                   \* the last top-level call
  log,                  \* what the engine did during the last top-level call
  dead                  \* history: the computations that were in the ownership
                        \* subtree of a root when a dispose of it returned

vars == << value, subscribers, comps, listener, owner, batchDepth, batchQueue,
           pendingFlush, pendingComputations, microtasks, handles, created, op, log, dead >>

-----------------------------------------------------------------------------
(* Bounds of the model *)

MaxVal == 1
MaxComps == 6

\* the nesting of teardowns at which a further call of dispose finds the call
\* stack full (RangeError: Maximum call stack size exceeded)
MaxStack == 3

\* the value up to which a batch of increments (c => c + 1) is still made
MaxCount == 4

-----------------------------------------------------------------------------
(* Values, signals, user functions *)

Vals == 0..MaxVal

\* `undefined`, the seed of a memo's signal
Undef == -1

PlainSigs == {"a", "b", "c"}

MemoSigs == {"m1", "m2"}

Sigs == PlainSigs \cup MemoSigs

RootNames == {"R"}

\* roots whose own code calls their dispose: RD from a cleanup, RS from an effect
SelfRoots == {"RD", "RS"}

\* a root whose function throws when b is 1
ThrowRoots == {"RT"}

\* a root that creates another root (RN) inside its function
NestRoots == {"RO", "RN"}

AllRoots == RootNames \cup SelfRoots \cup ThrowRoots \cup NestRoots

Null == "null"

\* Set.prototype.add / delete on an insertion-ordered Set
Range(q) == {q[i] : i \in 1..Len(q)}

SetAdd(q, x) == IF x \in Range(q) THEN q ELSE Append(q, x)

SetDelete(q, x) == SelectSeq(q, LAMBDA y : y # x)

\* a comparison that finds every pair of values different
ObjectIsNever(x, y) == FALSE

\* Object.is on the numbers and undefined the model stores
ObjectIs(x, y) == x = y

\* instructions of user functions
Rd(s) == [op |-> "read", sig |-> s]

If(s, v, t, e) == [op |-> "if", sig |-> s, val |-> v, then |-> t, else |-> e]

Wr(s, v) == [op |-> "write", sig |-> s, next |-> [kind |-> "lit", val |-> v]]

Upd(s) == [op |-> "write", sig |-> s, next |-> [kind |-> "upd"]]

\* setS(c => c + 1)
Inc(s) == [op |-> "write", sig |-> s, next |-> [kind |-> "inc"]]

MemoWr(m) == [op |-> "write", sig |-> m, next |-> [kind |-> "memo", memo |-> m]]

Eff(f) == [op |-> "effect", fn |-> f]

Clean(k) == [op |-> "cleanup", fn |-> k]

Disp(r) == [op |-> "dispose", root |-> r]

\* the dispose parameter of the enclosing createRoot, captured by a closure
DispOwn == [op |-> "disposeOwn"]

Bat(body) == [op |-> "batch", body |-> body]

Untr(body) == [op |-> "untrack", body |-> body]

Throw == [op |-> "throw"]

\* createRoot / createReactiveRoot called from a user function
Root(r) == [op |-> "root", fn |-> r]

\* try { body } catch {} in a user function
Try(body) == [op |-> "try", body |-> body]

\* the signals a memo's function reads, in order
MemoReads(m) == IF m = "m1" THEN << "a" >> ELSE << "a", "b" >>

\* the value a memo's function returns: m1 = a(), m2 = a() * b()
MemoFn(m, val) == IF m = "m1" THEN val["a"] ELSE val["a"] * val["b"]

\* the updater passed to a setter: c => (c + 1) % (MaxVal + 1)
Updater(v) == (v + 1) % (MaxVal + 1)

\* the user functions handed to createEffect / createRoot / onCleanup
Body(f) ==
  CASE f = "EffAB"   -> << Rd("a"), Rd("b") >>
    [] f = "EffCond" -> << If("c", 0, << Rd("a") >>, << Rd("b") >>) >>
    [] f = "EffMM"   -> << Rd("m1"), Rd("m2") >>
    [] f = "EffAM"   -> << Rd("a"), Rd("m1") >>
    [] f = "Memo1"   -> << MemoWr("m1") >>
    [] f = "Memo2"   -> << MemoWr("m2") >>
    [] f = "R"       -> << Clean("kR"), Eff("Outer") >>
    [] f = "Outer"   -> << Rd("a"), Clean("kO"), Eff("Inner") >>
    [] f = "Inner"   -> << Rd("b"), Clean("kI") >>
    [] f = "EffDisp" -> << If("a", 1, << Disp("R") >>, << >>) >>
    [] f = "RD"      -> << Clean("kD"), Eff("EffD") >>
    [] f = "kD"      -> << Disp("RD") >>
    [] f = "EffD"    -> << Rd("a"), Clean("kE") >>
    [] f = "RS"      -> << Eff("Self") >>
    [] f = "Self"    -> << If("a", 1, << DispOwn, Rd("b") >>, << >>) >>
    [] f = "EffThrow" -> << If("a", 1, << Throw >>, << >>) >>
    [] f = "Catcher"  -> << Try(<< Eff("EffThrow") >>), Rd("c"), Clean("kC") >>
    [] f = "RT"       -> << If("b", 1, << Throw >>, << >>) >>
    [] f = "EffUntr"  -> << Rd("a"),
                            Try(<< Untr(<< Clean("kU"),
                                           If("b", 1, << Throw >>, << >>) >>) >>),
                            Rd("c") >>
    [] f = "EffRoot"  -> << Rd("a"), Try(<< Root("RN") >>), Clean("kO") >>
    [] f = "RO"       -> << Try(<< Root("RN") >>), Clean("kRO") >>
    [] f = "RN"       -> << Eff("EffN"), Clean("kN"),
                            If("b", 1, << Throw >>, << >>) >>
    [] f = "EffN"     -> << Rd("c") >>
    [] f = "EffRR"    -> << Rd("a"), Root("RN"), Clean("kO") >>
    [] f = "EffW"     -> << Rd("a"), Wr("b", 0) >>
    [] f = "EffCopy"  -> << If("a", 1, << Wr("c", 1) >>, << Wr("c", 0) >>) >>
    [] OTHER         -> << >>

-----------------------------------------------------------------------------
(* Engine state threaded through one top-level call *)

\* a Computation object; lastReads is history: the signals read under tracking
\* since the latest run of the computation started
NewComp(f, o) ==
  [fn |-> f, sources |-> {}, cleanups |-> << >>, owner |-> o, owned |-> << >>,
   lastReads |-> {}]

Emit(st, e) == [st EXCEPT !.log = Append(@, e)]

IsPrefix(p, q) == Len(p) <= Len(q) /\ SubSeq(q, 1, Len(p)) = p

\* comp.sources.clear() without the deletes from the subscriber sets
UnsubscribeKeep(st, c) == [st EXCEPT !.comps[c].sources = {}]

\* comp.sources.forEach(subs => subs.delete(comp)); comp.sources.clear()
Unsubscribe(st, c) ==
  [st EXCEPT
     !.subs = [s \in Sigs |-> IF s \in st.comps[c].sources
                              THEN SetDelete(st.subs[s], c)
                              ELSE st.subs[s]],
     !.comps[c].sources = {}]

\* for (const s of subs) batchQueue.add(s)
AddAll(q, xs) == q \o SelectSeq(xs, LAMBDA x : x \notin Range(q))

RECURSIVE Descendants(_, _)
\* the computations reachable from c through `owned` (c included)
Descendants(cs, c) ==
  {c} \cup UNION {Descendants(cs, cs[c].owned[i]) : i \in 1..Len(cs[c].owned)}

\* the cleanups registered and not yet drained in the ownership subtree of c
Pending(cs, c) ==
  UNION {{<< d, i, cs[d].cleanups[i].fn >> :
            i \in {k \in 1..Len(cs[d].cleanups) : ~cs[d].cleanups[k].done}} :
           d \in Descendants(cs, c)}

\* the functions of a cleanups array
Fns(arr) == [i \in 1..Len(arr) |-> arr[i].fn]

\* history: the entry of comp.cleanups that is being invoked is marked done
MarkDone(st, c, i, k) ==
  IF i <= Len(st.comps[c].cleanups) /\ st.comps[c].cleanups[i].fn = k
  THEN [st EXCEPT !.comps[c].cleanups[i].done = TRUE]
  ELSE st

WasDone(st, c, i, k) ==
  /\ i <= Len(st.comps[c].cleanups)
  /\ st.comps[c].cleanups[i].fn = k
  /\ st.comps[c].cleanups[i].done

-----------------------------------------------------------------------------
(* The synchronous engine: src/unnamed/part_003 *)

\* A call of one engine function by another: the engine's functions are
\* mutually recursive, and every call that closes a cycle is made through Call.
\* A function that uses an intermediate state more than once receives it as a
\* parameter of a continuation operator (xxxThen, xxxFinally).
RECURSIVE Call(_, _, _)

\* a read that subscribes nobody
readUntracked(st, s) ==
  Emit([st EXCEPT !.ret = st.value[s]],
       [ev |-> "read", c |-> st.listener, sig |-> s, val |-> st.value[s]])

\* a read that adds the listener to the subscribers but not the signal to
\* the listener's sources
readNoSource(st, s) ==
  Emit(IF st.listener # 0
       THEN [st EXCEPT !.subs[s] = SetAdd(@, st.listener),
                       !.comps[st.listener].lastReads = @ \cup {s},
                       !.ret = st.value[s]]
       ELSE [st EXCEPT !.ret = st.value[s]],
       [ev |-> "read", c |-> st.listener, sig |-> s, val |-> st.value[s]])

\* const read = () => { if (listener) {...}; return value }
read(st, s) ==
  Emit(IF st.listener # 0
       THEN [st EXCEPT !.subs[s] = SetAdd(@, st.listener),
                       !.comps[st.listener].sources = @ \cup {s},
                       !.comps[st.listener].lastReads = @ \cup {s},
                       !.ret = st.value[s]]
       ELSE [st EXCEPT !.ret = st.value[s]],
       [ev |-> "read", c |-> st.listener, sig |-> s, val |-> st.value[s]])

\* the reads a memo's function makes, in order
ReadAll(st, ss) ==
  IF ss = << >> THEN st ELSE Call(read(st, Head(ss)), "ReadAll", << Tail(ss) >>)

\* return fn(): the value computed from what the reads found
MemoReturn(st, m) == [st EXCEPT !.ret = MemoFn(m, st.value)]

\* variant: a function passed to the setter is not applied
CallNextLiteralOnly(st, s, next) ==
  [st EXCEPT !.ret = IF next.kind = "lit" THEN next.val ELSE st.value[s]]

\* the candidate value: typeof next === 'function' ? next(value) : next
CallNext(st, s, next) ==
  CASE next.kind = "lit"  -> [st EXCEPT !.ret = next.val]
    [] next.kind = "upd"  -> [st EXCEPT !.ret = Updater(st.value[s])]
    [] next.kind = "inc"  -> [st EXCEPT !.ret = st.value[s] + 1]
    [] next.kind = "memo" -> MemoReturn(ReadAll(st, MemoReads(next.memo)), next.memo)

\* the array a for-of loop goes on with after a call: the loop sees what was
\* pushed to the array it iterates
Live(arr, now) == IF IsPrefix(arr, now) THEN now ELSE arr

RunCleanupsThen(s1, c, arr, i) ==
  Call(s1, "RunCleanups", << c, Live(arr, Fns(s1.comps[c].cleanups)), i + 1 >>)

\* for (const fn of comp.cleanups) fn()
RunCleanups(st, c, arr, i) ==
  IF st.exc \/ i > Len(arr) THEN st
  ELSE RunCleanupsThen(Call(Emit(MarkDone(st, c, i, arr[i]),
                                 [ev |-> "cleanup", c |-> c, idx |-> i,
                                  fn |-> arr[i], tear |-> st.tear,
                                  again |-> WasDone(st, c, i, arr[i])]),
                            "RunBody", << Body(arr[i]) >>),
                       c, arr, i)

DisposeOwnedThen(s1, c, arr, i) ==
  Call(s1, "DisposeOwned", << c, Live(arr, s1.comps[c].owned), i + 1 >>)

\* variant: the owned children are left as they are
DisposeOwnedNone(st, c, arr, i) == st

\* for (const child of comp.owned) disposeNode(child)
DisposeOwned(st, c, arr, i) ==
  IF st.exc \/ i > Len(arr) THEN st
  ELSE DisposeOwnedThen(Call(st, "disposeNode", << arr[i] >>), c, arr, i)

\* comp.owned = []
cleanupNodeEnd(s3, c, depth) ==
  IF s3.exc THEN [s3 EXCEPT !.tdepth = depth]
  ELSE [s3 EXCEPT !.comps[c].owned = << >>, !.tdepth = depth]

\* the owned children, without comp.cleanups = []
cleanupNodeKeep(s1, c, depth) ==
  IF s1.exc THEN [s1 EXCEPT !.tdepth = depth]
  ELSE cleanupNodeEnd(DisposeOwned(s1, c, s1.comps[c].owned, 1), c, depth)

\* comp.cleanups = []; then the owned children
cleanupNodeThen(s1, c, depth) ==
  IF s1.exc THEN [s1 EXCEPT !.tdepth = depth]
  ELSE cleanupNodeEnd(DisposeOwned([s1 EXCEPT !.comps[c].cleanups = << >>],
                                   c, s1.comps[c].owned, 1),
                      c, depth)

\* cleanupNode: the cleanups first, then the owned children
cleanupNode(st, c) ==
  cleanupNodeThen(RunCleanups([st EXCEPT !.tdepth = @ + 1,
                                         !.tear = IF st.tdepth = 0 THEN @ + 1 ELSE @],
                              c, Fns(st.comps[c].cleanups), 1),
                  c, st.tdepth)

\* the unsubscription, without comp.fn = null
disposeNodeKeepFn(s1, c) ==
  IF s1.exc THEN s1
  ELSE Emit(Unsubscribe(s1, c), [ev |-> "disposed", c |-> c])

\* comp.sources.forEach(...); comp.sources.clear(); comp.fn = null
disposeNodeThen(s1, c) ==
  IF s1.exc THEN s1
  ELSE Emit([Unsubscribe(s1, c) EXCEPT !.comps[c].fn = Null],
            [ev |-> "disposed", c |-> c])

disposeNode(st, c) == disposeNodeThen(cleanupNode(st, c), c)

\* if (!comp.fn) return
Inert(st, c) == st.comps[c].fn = Null

\* a restore of listener and owner that is skipped when fn threw
runComputationNoFinally(s4, c, prevListener, prevOwner) ==
  IF s4.exc
  THEN Emit(s4, [ev |-> "end", c |-> c,
                 subs |-> {s \in Sigs : c \in Range(s4.subs[s])},
                 reads |-> s4.comps[c].lastReads])
  ELSE Emit([s4 EXCEPT !.listener = prevListener, !.owner = prevOwner],
            [ev |-> "end", c |-> c,
             subs |-> {s \in Sigs : c \in Range(s4.subs[s])},
             reads |-> s4.comps[c].lastReads])

\* variant: listener and owner stay at the computation when its run ends
runComputationLeaveContext(s4, c, prevListener, prevOwner) ==
  Emit(s4, [ev |-> "end", c |-> c,
            subs |-> {s \in Sigs : c \in Range(s4.subs[s])},
            reads |-> s4.comps[c].lastReads])

\* finally { listener = prevListener; owner = prevOwner }
runComputationFinally(s4, c, prevListener, prevOwner) ==
  Emit([s4 EXCEPT !.listener = prevListener, !.owner = prevOwner],
       [ev |-> "end", c |-> c,
        subs |-> {s \in Sigs : c \in Range(s4.subs[s])},
        reads |-> s4.comps[c].lastReads])

\* listener = comp; owner = comp; try { comp.fn() }
runComputationFn(s2, c) ==
  runComputationFinally(
    IF s2.comps[c].fn = Null
    THEN [s2 EXCEPT !.exc = TRUE]
    ELSE Call(Emit([s2 EXCEPT !.listener = c, !.owner = c,
                              !.comps[c].lastReads = {}],
                   [ev |-> "run", c |-> c, fn |-> s2.comps[c].fn,
                    prev |-> s2.comps[c].lastReads]),
              "RunBody", << Body(s2.comps[c].fn) >>),
    c, s2.listener, s2.owner)

runComputationThen(s1, c) ==
  IF s1.exc THEN s1 ELSE runComputationFn(Unsubscribe(s1, c), c)

\* a re-run that does not tear the previous run down
runComputationNoTeardown(st, c) ==
  IF Inert(st, c) THEN st ELSE runComputationThen(st, c)

runComputation(st, c) ==
  IF Inert(st, c) THEN st ELSE runComputationThen(cleanupNode(st, c), c)

\* a loop that runs the first computation of the snapshot only
RunFirst(st, q) ==
  IF st.exc \/ q = << >> THEN st ELSE runComputation(st, Head(q))

\* for (const s of subs) runComputation(s), over a snapshot
RunAll(st, q) ==
  IF st.exc \/ q = << >> THEN st
  ELSE Call(runComputation(st, Head(q)), "RunAll", << Tail(q) >>)

\* a notify that ignores batchDepth
notifyNow(st, s) == RunAll(st, st.subs[s])

\* if (batchDepth > 0) queue the subscribers, else run a snapshot of them
notify(st, s) ==
  IF st.batchDepth > 0
  THEN Emit([st EXCEPT !.batchQueue = AddAll(@, st.subs[s])],
            [ev |-> "enqueue", q |-> st.subs[s]])
  ELSE RunAll(st, st.subs[s])

\* value = nextVal; notify(subscribers), whatever the two values are
writeAlways(s1, s) ==
  IF s1.exc THEN s1
  ELSE Emit(notify(Emit([s1 EXCEPT !.value[s] = s1.ret],
                        [ev |-> "write", sig |-> s, old |-> s1.value[s],
                         new |-> s1.ret, depth |-> s1.batchDepth,
                         subs |-> s1.subs[s]]), s),
            [ev |-> "written", sig |-> s])

\* if (!Object.is(value, nextVal)) { value = nextVal; notify(subscribers) }
writeThen(s1, s) ==
  IF s1.exc THEN s1
  ELSE Emit(IF ~ObjectIs(s1.value[s], s1.ret)
            THEN notify(Emit([s1 EXCEPT !.value[s] = s1.ret],
                             [ev |-> "write", sig |-> s, old |-> s1.value[s],
                              new |-> s1.ret, depth |-> s1.batchDepth,
                              subs |-> s1.subs[s]]), s)
            ELSE Emit(s1, [ev |-> "write", sig |-> s, old |-> s1.value[s],
                           new |-> s1.ret, depth |-> s1.batchDepth,
                           subs |-> s1.subs[s]]),
            [ev |-> "written", sig |-> s])

write(st, s, next) == writeThen(CallNext(st, s, next), s)

\* const comp = {...}; if (owner) owner.owned.push(comp)
Allocate(st, f) ==
  IF st.owner # 0
  THEN [st EXCEPT !.comps = Append(@, NewComp(f, st.owner)),
                  !.comps[st.owner].owned = Append(@, Len(st.comps) + 1)]
  ELSE [st EXCEPT !.comps = Append(@, NewComp(f, st.owner))]

createEffect(st, f) == runComputation(Allocate(st, f), Len(st.comps) + 1)

\* variant: the owner is left at the root when createRoot ends
createRootKeepOwner(s3, r, n, prevOwner) ==
  IF s3.exc THEN s3 ELSE [s3 EXCEPT !.handles[r] = n]

\* finally { owner = prevOwner }; the value fn returned (the dispose callback)
\* is kept in the user's variable handles[r]
createRootFinally(s3, r, n, prevOwner) ==
  IF s3.exc THEN [s3 EXCEPT !.owner = prevOwner]
  ELSE [s3 EXCEPT !.owner = prevOwner, !.handles[r] = n]

\* createRoot(dispose => { Body(r); return dispose })
createRoot(st, r) ==
  createRootFinally(Call([Allocate(st, Null) EXCEPT !.owner = Len(st.comps) + 1],
                         "RunBody", << Body(r) >>),
                    r, Len(st.comps) + 1, st.owner)

disposeThen(s1, n, sub) ==
  IF s1.exc THEN s1 ELSE Emit(s1, [ev |-> "disposeEnd", c |-> n, sub |-> sub])

\* the callback handed to createRoot's fn: () => disposeNode(root)
dispose(st, r) ==
  disposeThen(disposeNode(Emit(st, [ev |-> "dispose", c |-> st.handles[r],
                                    sub |-> Descendants(st.comps, st.handles[r]),
                                    pend |-> Pending(st.comps, st.handles[r])]),
                          st.handles[r]),
              st.handles[r], Descendants(st.comps, st.handles[r]))

RECURSIVE RootOf(_, _)
\* the root at the top of the ownership chain of computation c
RootOf(cs, c) == IF cs[c].owner = 0 THEN c ELSE RootOf(cs, cs[c].owner)

\* dispose(), called through the closure of the function that runs under the
\* root that is computation n
disposeAt(st, n) ==
  disposeThen(disposeNode(Emit(st, [ev |-> "dispose", c |-> n,
                                    sub |-> Descendants(st.comps, n),
                                    pend |-> Pending(st.comps, n)]),
                          n),
              n, Descendants(st.comps, n))

\* what the finally block of batch leaves: the exception of fn, or of the flush
batchEnd(s3, threw) == [s3 EXCEPT !.exc = threw \/ s3.exc]

\* a flush at the exit of every batch, whatever batchDepth is
batchFlushAnyDepth(s2, threw) ==
  batchEnd(IF Len(s2.batchQueue) > 0
           THEN RunAll([s2 EXCEPT !.batchQueue = << >>], s2.batchQueue)
           ELSE s2,
           threw)

\* if (batchDepth === 0 && batchQueue.size > 0) { ...flush... }
batchFlush(s2, threw) ==
  batchEnd(IF s2.batchDepth = 0 /\ Len(s2.batchQueue) > 0
           THEN RunAll([s2 EXCEPT !.batchQueue = << >>], s2.batchQueue)
           ELSE s2,
           threw)

\* finally { batchDepth--; ... }
batchFinally(s1) ==
  batchFlush(Emit([s1 EXCEPT !.batchDepth = @ - 1, !.exc = FALSE],
                  [ev |-> "bodyEnd", depth |-> s1.batchDepth - 1]),
             s1.exc)

batch(st, body) ==
  batchFinally(Call(Emit([st EXCEPT !.batchDepth = @ + 1], [ev |-> "batch"]),
                    "RunBody", << body >>))

\* history: what untrack leaves to its caller
untrackDone(s2) ==
  Emit(s2, [ev |-> "untrackEnd", listener |-> s2.listener, owner |-> s2.owner,
            threw |-> s2.exc])

\* an exit of untrack that leaves the listener cleared
untrackNoRestore(s1, prev) == untrackDone(s1)

\* finally { listener = prev }
untrackFinally(s1, prev) == untrackDone([s1 EXCEPT !.listener = prev])

\* const prev = listener; listener = null; try { return fn() }
untrack(st, body) ==
  untrackFinally(Call(Emit([st EXCEPT !.listener = 0],
                           [ev |-> "untrack", listener |-> st.listener,
                            owner |-> st.owner]),
                      "RunBody", << body >>),
                 st.listener)

\* variant: a call with no owner is an error
onCleanupStrict(st, k) ==
  IF st.owner # 0
  THEN [st EXCEPT !.comps[st.owner].cleanups = Append(@, [fn |-> k, done |-> FALSE])]
  ELSE [st EXCEPT !.exc = TRUE]

onCleanup(st, k) ==
  IF st.owner # 0
  THEN [st EXCEPT !.comps[st.owner].cleanups = Append(@, [fn |-> k, done |-> FALSE])]
  ELSE st

\* catch {}: the exception of the body, if any, ends here
TryEnd(s1) ==
  IF s1.exc THEN Emit([s1 EXCEPT !.exc = FALSE], [ev |-> "caught"]) ELSE s1

\* if (cond() === val) { then } else { else }
Branch(s1, ins) ==
  Call(s1, "RunBody", << IF s1.ret = ins.val THEN ins.then ELSE ins.else >>)

\* one statement of a user function
Exec(st, ins) ==
  CASE ins.op = "read"    -> read(st, ins.sig)
    [] ins.op = "if"      -> Branch(read(st, ins.sig), ins)
    [] ins.op = "write"   -> write(st, ins.sig, ins.next)
    [] ins.op = "effect"  -> createEffect(st, ins.fn)
    [] ins.op = "cleanup" -> onCleanup(st, ins.fn)
    [] ins.op = "dispose" -> IF st.handles[ins.root] = 0 THEN st
                             ELSE IF st.tdepth >= MaxStack
                                  THEN [st EXCEPT !.exc = TRUE]
                                  ELSE dispose(st, ins.root)
    [] ins.op = "disposeOwn" -> IF st.owner = 0 THEN st
                                ELSE disposeAt(st, RootOf(st.comps, st.owner))
    [] ins.op = "batch"   -> batch(st, ins.body)
    [] ins.op = "untrack" -> untrack(st, ins.body)
    [] ins.op = "throw"   -> [st EXCEPT !.exc = TRUE]
    [] ins.op = "try"     -> TryEnd(Call(st, "RunBody", << ins.body >>))
    [] ins.op = "root"    -> createRoot(st, ins.fn)

\* the statements of a user function, until one throws
RunBody(st, code) ==
  IF st.exc \/ code = << >> THEN st
  ELSE Call(Exec(st, Head(code)), "RunBody", << Tail(code) >>)

-----------------------------------------------------------------------------
(* The microtask-deferred engine: src/src/reactive.ts *)

\* comp.cleanups.forEach((cleanup) => cleanup())
ForEachCleanup(st, c, arr, i) ==
  IF st.exc \/ i > Len(arr) THEN st
  ELSE Call(Call(Emit(MarkDone(st, c, i, arr[i]),
                      [ev |-> "cleanup", c |-> c, idx |-> i, fn |-> arr[i],
                       tear |-> st.tear, again |-> WasDone(st, c, i, arr[i])]),
                 "RunBodyDeferred", << Body(arr[i]) >>),
            "ForEachCleanup", << c, arr, i + 1 >>)

\* comp.owned.forEach((child) => disposeNode(child))
ForEachOwned(st, arr, i) ==
  IF st.exc \/ i > Len(arr) THEN st
  ELSE Call(Call(st, "disposeNodeDeferred", << arr[i] >>),
            "ForEachOwned", << arr, i + 1 >>)

\* comp.owned = []; comp.cleanups = []
cleanupNodeDeferredEnd(s2, c, depth) ==
  IF s2.exc THEN [s2 EXCEPT !.tdepth = depth]
  ELSE [s2 EXCEPT !.comps[c].owned = << >>, !.comps[c].cleanups = << >>,
                  !.tdepth = depth]

cleanupNodeDeferredThen(s1, c, depth) ==
  cleanupNodeDeferredEnd(ForEachOwned(s1, s1.comps[c].owned, 1), c, depth)

\* cleanupNode: the cleanups, then the owned children, then both lists emptied
cleanupNodeDeferred(st, c) ==
  cleanupNodeDeferredThen(
    ForEachCleanup([st EXCEPT !.tdepth = @ + 1,
                              !.tear = IF st.tdepth = 0 THEN @ + 1 ELSE @],
                   c, Fns(st.comps[c].cleanups), 1),
    c, st.tdepth)

disposeNodeDeferredThen(s1, c) ==
  IF s1.exc THEN s1
  ELSE Emit([Unsubscribe(s1, c) EXCEPT !.comps[c].fn = Null],
            [ev |-> "disposed", c |-> c])

disposeNodeDeferred(st, c) ==
  disposeNodeDeferredThen(cleanupNodeDeferred(st, c), c)

runComputationDeferredFinally(s4, c, prevListener, prevOwner) ==
  Emit([s4 EXCEPT !.listener = prevListener, !.owner = prevOwner],
       [ev |-> "end", c |-> c,
        subs |-> {s \in Sigs : c \in Range(s4.subs[s])},
        reads |-> s4.comps[c].lastReads])

runComputationDeferredFn(s2, c) ==
  runComputationDeferredFinally(
    Call(Emit([s2 EXCEPT !.listener = c, !.owner = c, !.comps[c].lastReads = {}],
              [ev |-> "run", c |-> c, fn |-> s2.comps[c].fn,
               prev |-> s2.comps[c].lastReads]),
         "RunBodyDeferred", << Body(s2.comps[c].fn) >>),
    c, s2.listener, s2.owner)

runComputationDeferredThen(s1, c) ==
  IF s1.exc THEN s1 ELSE runComputationDeferredFn(Unsubscribe(s1, c), c)

runComputationDeferred(st, c) ==
  IF st.comps[c].fn = Null THEN st
  ELSE runComputationDeferredThen(cleanupNodeDeferred(st, c), c)

\* variant: a microtask is queued by every call
scheduleFlushAlways(st) ==
  Emit([st EXCEPT !.pendingFlush = TRUE, !.microtasks = @ + 1], [ev |-> "schedule"])

\* if (!pendingFlush) { pendingFlush = true; queueMicrotask(...) }
scheduleFlush(st) ==
  IF ~st.pendingFlush
  THEN Emit([st EXCEPT !.pendingFlush = TRUE, !.microtasks = @ + 1],
            [ev |-> "schedule"])
  ELSE st

\* for (const comp of queue) runComputation(comp)
RunQueue(st, q) ==
  IF st.exc \/ q = << >> THEN st
  ELSE Call(runComputationDeferred(st, Head(q)), "RunQueue", << Tail(q) >>)

\* the microtask: pendingFlush = false; const queue = [...pendingComputations];
\* pendingComputations.clear(); then the loop
flush(st) ==
  RunQueue(Emit([st EXCEPT !.pendingFlush = FALSE, !.pending = << >>,
                           !.microtasks = @ - 1],
                [ev |-> "flush", queue |-> st.pending, n |-> Len(st.comps),
                 inert |-> {c \in Range(st.pending) : Inert(st, c)}]),
           st.pending)

\* if (!Object.is(value, nextVal)) return; value = nextVal; ...; scheduleFlush()
writeDeferredThen(s1, s) ==
  IF s1.exc THEN s1
  ELSE Emit(IF ~ObjectIs(s1.value[s], s1.ret)
            THEN Emit(s1, [ev |-> "write", sig |-> s, old |-> s1.value[s],
                           new |-> s1.ret, subs |-> s1.subs[s],
                           pending |-> s1.pending, flush |-> s1.pendingFlush])
            ELSE scheduleFlush(
                   Emit([s1 EXCEPT !.value[s] = s1.ret,
                                   !.pending = AddAll(@, s1.subs[s])],
                        [ev |-> "write", sig |-> s, old |-> s1.value[s],
                         new |-> s1.ret, subs |-> s1.subs[s],
                         pending |-> s1.pending, flush |-> s1.pendingFlush])),
            [ev |-> "written", sig |-> s])

writeDeferred(st, s, next) == writeDeferredThen(CallNext(st, s, next), s)

createEffectDeferred(st, f) ==
  runComputationDeferred(Allocate(st, f), Len(st.comps) + 1)

\* the root: fn null, cleanups [() => disposeNode(root)], not pushed to the
\* owned list of the active owner
NewRoot(o) ==
  [fn |-> Null, sources |-> {}, cleanups |-> << [fn |-> "disposeRoot", done |-> FALSE] >>,
   owner |-> o, owned |-> << >>, lastReads |-> {}]

\* finally { owner = null }
createReactiveRootFinally(s2) == [s2 EXCEPT !.owner = 0]

createReactiveRoot(st, r) ==
  createReactiveRootFinally(
    Call([st EXCEPT !.comps = Append(@, NewRoot(st.owner)),
                    !.owner = Len(st.comps) + 1],
         "RunBodyDeferred", << Body(r) >>))

BranchDeferred(s1, ins) ==
  Call(s1, "RunBodyDeferred", << IF s1.ret = ins.val THEN ins.then ELSE ins.else >>)

\* one statement of a user function that uses the deferred engine
ExecDeferred(st, ins) ==
  CASE ins.op = "read"    -> read(st, ins.sig)
    [] ins.op = "if"      -> BranchDeferred(read(st, ins.sig), ins)
    [] ins.op = "write"   -> writeDeferred(st, ins.sig, ins.next)
    [] ins.op = "effect"  -> createEffectDeferred(st, ins.fn)
    [] ins.op = "cleanup" -> onCleanup(st, ins.fn)
    [] ins.op = "root"    -> createReactiveRoot(st, ins.fn)
    [] ins.op = "throw"   -> [st EXCEPT !.exc = TRUE]

RunBodyDeferred(st, code) ==
  IF st.exc \/ code = << >> THEN st
  ELSE Call(ExecDeferred(st, Head(code)), "RunBodyDeferred", << Tail(code) >>)

Call(st, f, x) ==
  CASE f = "RunBody"             -> RunBody(st, x[1])
    [] f = "ReadAll"             -> ReadAll(st, x[1])
    [] f = "RunAll"              -> RunAll(st, x[1])
    [] f = "RunCleanups"         -> RunCleanups(st, x[1], x[2], x[3])
    [] f = "DisposeOwned"        -> DisposeOwned(st, x[1], x[2], x[3])
    [] f = "disposeNode"         -> disposeNode(st, x[1])
    [] f = "RunBodyDeferred"     -> RunBodyDeferred(st, x[1])
    [] f = "ForEachCleanup"      -> ForEachCleanup(st, x[1], x[2], x[3])
    [] f = "ForEachOwned"        -> ForEachOwned(st, x[1], x[2])
    [] f = "disposeNodeDeferred" -> disposeNodeDeferred(st, x[1])
    [] f = "RunQueue"            -> RunQueue(st, x[1])

-----------------------------------------------------------------------------
(* Top-level calls *)

\* the engine state at the start of a top-level call
Now ==
  [value |-> value, subs |-> subscribers, comps |-> comps, listener |-> listener,
   owner |-> owner, batchDepth |-> batchDepth, batchQueue |-> batchQueue,
   pendingFlush |-> pendingFlush, pending |-> pendingComputations,
   microtasks |-> microtasks, handles |-> handles, exc |-> FALSE, ret |-> Undef, tear |-> 0, tdepth |-> 0,
   log |-> << >>]

\* the engine state when the call has returned (or thrown) to the top level
Commit(st, o) ==
  /\ Len(st.comps) <= MaxComps
  /\ value' = st.value
  /\ subscribers' = st.subs
  /\ comps' = st.comps
  /\ listener' = st.listener
  /\ owner' = st.owner
  /\ batchDepth' = st.batchDepth
  /\ batchQueue' = st.batchQueue
  /\ pendingFlush' = st.pendingFlush
  /\ pendingComputations' = st.pending
  /\ microtasks' = st.microtasks
  /\ handles' = st.handles
  /\ log' = st.log
  /\ op' = [o EXCEPT !.threw = st.exc]
  /\ dead' = dead \cup UNION {st.log[i].sub :
                               i \in {k \in 1..Len(st.log) : st.log[k].ev = "disposeEnd"}}

Init ==
  /\ value = [s \in Sigs |-> IF s \in PlainSigs THEN 0 ELSE Undef]
  /\ subscribers = [s \in Sigs |-> << >>]
  /\ comps = << >>
  /\ listener = 0
  /\ owner = 0
  /\ batchDepth = 0
  /\ batchQueue = << >>
  /\ pendingFlush = FALSE
  /\ pendingComputations = << >>
  /\ microtasks = 0
  /\ handles = [r \in AllRoots |-> 0]
  /\ created = {}
  /\ op = [name |-> "init", threw |-> FALSE]
  /\ log = << >>
  /\ dead = {}

\* what a declaration needs to have been declared before it
Needs(f) ==
  CASE f = "EffMM" -> {"m1", "m2"}
    [] f = "EffAM" -> {"m1"}
    [] OTHER       -> {}

CreateEffect(f) ==
  /\ f \notin created
  /\ Needs(f) \subseteq created
  /\ created' = created \cup {f}
  /\ Commit(createEffect(Now, f), [name |-> "createEffect", fn |-> f, threw |-> FALSE])

\* const m = createMemo(fn): createSignal(undefined), then the writing effect
CreateMemo(m) ==
  /\ m \notin created
  /\ created' = created \cup {m}
  /\ Commit(createEffect(Now, IF m = "m1" THEN "Memo1" ELSE "Memo2"),
            [name |-> "createMemo", memo |-> m, threw |-> FALSE])

Write(s, v) ==
  /\ created' = created
  /\ Commit(write(Now, s, [kind |-> "lit", val |-> v]),
            [name |-> "write", sig |-> s, next |-> "literal", threw |-> FALSE])

WriteUpdater(s) ==
  /\ created' = created
  /\ Commit(write(Now, s, [kind |-> "upd"]),
            [name |-> "write", sig |-> s, next |-> "updater", threw |-> FALSE])

\* batch(() => { setS1(v1); setS2(v2) })
Batch(s1, v1, s2, v2) ==
  /\ created' = created
  /\ Commit(batch(Now, << Wr(s1, v1), Wr(s2, v2) >>),
            [name |-> "batch", threw |-> FALSE])

\* batch(() => { setS(c => c + 1); s(); setS(c => c + 1); s() })
BatchIncs(s) ==
  /\ value[s] + 2 <= MaxCount
  /\ created' = created
  /\ Commit(batch(Now, << Inc(s), Rd(s), Inc(s), Rd(s) >>),
            [name |-> "batchIncs", sig |-> s, threw |-> FALSE])

\* batch(() => { setS(v); m() })
BatchRead(s, v, m) ==
  /\ m \in created
  /\ created' = created
  /\ Commit(batch(Now, << Wr(s, v), Rd(m) >>),
            [name |-> "batchRead", sig |-> s, memo |-> m, threw |-> FALSE])

\* batch(() => { setS(v); throw new Error() })
BatchThrow(s, v) ==
  /\ created' = created
  /\ Commit(batch(Now, << Wr(s, v), Throw >>), [name |-> "batchThrow", threw |-> FALSE])

Read(s) ==
  /\ created' = created
  /\ Commit(read(Now, s), [name |-> "read", sig |-> s, threw |-> FALSE])

\* batch(() => { setS1(v1); batch(() => { setS2(v2) }); setC(c => c + 1) })
NestedBatch(s1, v1, s2, v2) ==
  /\ created' = created
  /\ Commit(batch(Now, << Wr(s1, v1), Bat(<< Wr(s2, v2) >>), Upd("c") >>),
            [name |-> "nestedBatch", threw |-> FALSE])

\* m(): a read of a memo the user has created
ReadMemo(m) ==
  /\ m \in created
  /\ created' = created
  /\ Commit(read(Now, m), [name |-> "read", sig |-> m, threw |-> FALSE])

\* const unmount = render(code, container)
Render(r) ==
  /\ r \notin created
  /\ created' = created \cup {r}
  /\ Commit(createRoot(Now, r), [name |-> "render", root |-> r, threw |-> FALSE])

\* unmount()
Unmount(r) ==
  /\ handles[r] # 0
  /\ created' = created
  /\ Commit(dispose(Now, r), [name |-> "dispose", root |-> r, threw |-> FALSE])

\* the same calls on the microtask-deferred engine
CreateEffectDeferred(f) ==
  /\ f \notin created
  /\ created' = created \cup {f}
  /\ Commit(createEffectDeferred(Now, f),
            [name |-> "createEffect", fn |-> f, threw |-> FALSE])

WriteDeferred(s, v) ==
  /\ created' = created
  /\ Commit(writeDeferred(Now, s, [kind |-> "lit", val |-> v]),
            [name |-> "write", sig |-> s, next |-> "literal", threw |-> FALSE])

WriteUpdaterDeferred(s) ==
  /\ created' = created
  /\ Commit(writeDeferred(Now, s, [kind |-> "upd"]),
            [name |-> "write", sig |-> s, next |-> "updater", threw |-> FALSE])

ReadDeferred(s) ==
  /\ created' = created
  /\ Commit(read(Now, s), [name |-> "read", sig |-> s, threw |-> FALSE])

\* onCleanup(kTop) called at top level, outside every root, effect and memo
OnCleanupTop ==
  /\ created' = created
  /\ Commit(onCleanup(Now, "kTop"), [name |-> "onCleanup", fn |-> "kTop", threw |-> FALSE])

\* the microtask queued by scheduleFlush runs
Flush ==
  /\ microtasks > 0
  /\ created' = created
  /\ Commit(flush(Now), [name |-> "flush", threw |-> FALSE])

\* plain signals and the effects that read them
Next ==
  \/ \E f \in {"EffAB", "EffCond"} : CreateEffect(f)
  \/ \E s \in PlainSigs, v \in Vals : Write(s, v)
  \/ \E s \in PlainSigs : WriteUpdater(s)
  \/ \E s1 \in PlainSigs, s2 \in PlainSigs, v1 \in Vals, v2 \in Vals :
       Batch(s1, v1, s2, v2)
  \/ \E s \in PlainSigs : Read(s)

Spec == Init /\ [][Next]_vars

\* memos of the signals a and b, and the effects that read the memos
NextMemo ==
  \/ \E f \in {"EffMM", "EffAM"} : CreateEffect(f)
  \/ \E m \in MemoSigs : CreateMemo(m)
  \/ \E s \in {"a", "b"}, v \in Vals : Write(s, v)
  \/ \E s1 \in {"a", "b"}, s2 \in {"a", "b"}, v1 \in Vals, v2 \in Vals :
       Batch(s1, v1, s2, v2)
  \/ \E m \in MemoSigs : ReadMemo(m)

SpecMemo == Init /\ [][NextMemo]_vars

\* a rendered root that owns an effect that owns a nested effect, and an effect
\* outside the root that unmounts it
NextOwn ==
  \/ CreateEffect("EffDisp")
  \/ \E r \in RootNames : Render(r)
  \/ \E r \in RootNames : Unmount(r)
  \/ \E s \in {"a", "b"}, v \in Vals : Write(s, v)
  \/ \E s1 \in {"a", "b"}, s2 \in {"a", "b"}, v1 \in Vals, v2 \in Vals :
       Batch(s1, v1, s2, v2)

SpecOwn == Init /\ [][NextOwn]_vars

\* a rendered root that owns an effect that owns a nested effect, each with a
\* cleanup, under reads, writes and unmount
NextClean ==
  \/ \E r \in RootNames : Render(r)
  \/ \E r \in RootNames : Unmount(r)
  \/ \E s \in PlainSigs, v \in Vals : Write(s, v)
  \/ \E s \in PlainSigs : Read(s)

SpecClean == Init /\ [][NextClean]_vars

\* functions that throw (an effect, a root) and an effect that catches what
\* an effect it creates throws
NextCtx ==
  \/ \E f \in {"EffThrow", "Catcher"} : CreateEffect(f)
  \/ \E r \in ThrowRoots : Render(r)
  \/ \E s \in PlainSigs, v \in Vals : Write(s, v)
  \/ \E s \in {"a"} : Read(s)

SpecCtx == Init /\ [][NextCtx]_vars

\* createRoot called inside an effect and inside another root, with an inner
\* root whose function throws when b is 1, and a root that throws at top level
NextRoot ==
  \/ \E f \in {"EffRoot"} : CreateEffect(f)
  \/ \E r \in {"RO"} \cup ThrowRoots : Render(r)
  \/ \E r \in {"RO"} : Unmount(r)
  \/ \E s \in PlainSigs, v \in Vals : Write(s, v)

SpecRoot == Init /\ [][NextRoot]_vars

\* batches, also with a body that throws, over an effect that throws when a
\* is 1 and an effect that reads a and b
NextLoss ==
  \/ \E f \in {"EffThrow", "EffAB"} : CreateEffect(f)
  \/ \E s \in {"a", "b"}, v \in Vals : Write(s, v)
  \/ \E s1 \in {"a", "b"}, s2 \in {"a", "b"}, v1 \in Vals, v2 \in Vals : Batch(s1, v1, s2, v2)
  \/ \E s \in {"a", "b"}, v \in Vals : BatchThrow(s, v)

SpecLoss == Init /\ [][NextLoss]_vars

\* memos that are read inside a batch after a signal they depend on was written
NextStale ==
  \/ \E m \in MemoSigs : CreateMemo(m)
  \/ \E f \in {"EffMM"} : CreateEffect(f)
  \/ \E s \in {"a", "b"}, v \in Vals : Write(s, v)
  \/ \E s \in {"a", "b"}, v \in Vals, m \in MemoSigs : BatchRead(s, v, m)

SpecStale == Init /\ [][NextStale]_vars

\* literal writes, updater writes and batches of increments, with reads
NextWrites ==
  \/ \E f \in {"EffAB"} : CreateEffect(f)
  \/ \E s \in {"a", "b"}, v \in Vals : Write(s, v)
  \/ \E s \in {"a", "b"} : WriteUpdater(s)
  \/ \E s \in {"a", "b"} : BatchIncs(s)
  \/ \E s \in {"a", "b"} : Read(s)

SpecWrites == Init /\ [][NextWrites]_vars

\* an acyclic graph: a memo of a, an effect that copies a into c, an effect
\* that reads c and then a or b, and an effect that reads a and the memo
NextChain ==
  \/ \E f \in {"EffCopy", "EffCond", "EffAM"} : CreateEffect(f)
  \/ \E m \in {"m1"} : CreateMemo(m)
  \/ \E s \in {"a", "b"}, v \in Vals : Write(s, v)
  \/ \E s1 \in {"a", "b"}, s2 \in {"a", "b"}, v1 \in Vals, v2 \in Vals : Batch(s1, v1, s2, v2)

SpecChain == Init /\ [][NextChain]_vars

\* an effect that reads b under untrack, where the function of untrack throws
\* when b is 1, next to an effect that reads a and b
NextUntr ==
  \/ \E f \in {"EffUntr", "EffAB"} : CreateEffect(f)
  \/ \E s \in PlainSigs, v \in Vals : Write(s, v)
  \/ \E s \in {"b"} : Read(s)

SpecUntr == Init /\ [][NextUntr]_vars

\* plain signals, the effects that read them, and a batch inside a batch
NextBatch ==
  \/ \E f \in {"EffAB", "EffCond"} : CreateEffect(f)
  \/ \E s \in PlainSigs, v \in Vals : Write(s, v)
  \/ \E s1 \in PlainSigs, s2 \in PlainSigs, v1 \in Vals, v2 \in Vals :
       NestedBatch(s1, v1, s2, v2)

SpecBatch == Init /\ [][NextBatch]_vars

\* roots that are disposed from inside: by a cleanup of the root while the
\* root is being disposed, and by an effect of the root while it runs
NextSelf ==
  \/ \E r \in SelfRoots : Render(r)
  \/ \E r \in SelfRoots : Unmount(r)
  \/ \E s \in {"a", "b"}, v \in Vals : Write(s, v)

SpecSelf == Init /\ [][NextSelf]_vars

\* the microtask-deferred engine: plain signals, effects that read them, an
\* effect that owns a nested effect, and the flush microtask
NextMicro ==
  \/ \E f \in {"EffAB", "EffCond", "Outer"} : CreateEffectDeferred(f)
  \/ \E s \in PlainSigs, v \in Vals : WriteDeferred(s, v)
  \/ \E s \in PlainSigs : WriteUpdaterDeferred(s)
  \/ \E s \in PlainSigs : ReadDeferred(s)
  \/ Flush

SpecMicro == Init /\ [][NextMicro]_vars

\* the microtask-deferred engine with an effect that owns a nested effect, an
\* effect that writes a signal, and an effect that reads two signals
NextFlush ==
  \/ \E f \in {"Outer", "EffW", "EffAB"} : CreateEffectDeferred(f)
  \/ \E s \in {"a", "b"}, v \in Vals : WriteDeferred(s, v)
  \/ Flush
  \/ OnCleanupTop

SpecFlush == Init /\ [][NextFlush]_vars

\* the microtask-deferred engine with an effect whose function calls
\* createReactiveRoot and registers a cleanup after the call
NextMicroRoot ==
  \/ \E f \in {"EffRR", "EffAB"} : CreateEffectDeferred(f)
  \/ \E s \in PlainSigs, v \in Vals : WriteDeferred(s, v)
  \/ Flush

SpecMicroRoot == Init /\ [][NextMicroRoot]_vars

-----------------------------------------------------------------------------
(* Properties *)

\* positions of the log
Pos == 1..Len(log)

\* the runs of computation c recorded in the log
RunsOf(c) == {i \in Pos : log[i].ev = "run" /\ log[i].c = c}

\* the position where the body of the outermost batch of the call ended
BodyEndAt(i) == log[i].ev = "bodyEnd" /\ log[i].depth = 0

\* the reads computation c made during the runs recorded in the log
ReadsOf(c) == {i \in Pos : log[i].ev = "read" /\ log[i].c = c}

\* the writes of the log that changed the signal they wrote while c subscribed to it
ChangedFor(c) ==
  {i \in Pos : /\ log[i].ev = "write"
               /\ log[i].old # log[i].new
               /\ c \in Range(log[i].subs)}

C2_TrackingPrecise ==
  /\ \A i \in Pos : log[i].ev = "end" => log[i].subs = log[i].reads
  /\ \A c \in 1..Len(comps) :
       comps[c].fn # Null
         => {s \in Sigs : c \in Range(subscribers[s])} = comps[c].lastReads
  /\ \A i \in Pos :
       (op.name = "write" /\ log[i].ev = "run") => op.sig \in log[i].prev

\* the conditional effect read c and a in its previous run and c and b in the
\* run the write to c caused
C2_Witness ==
  /\ op.name = "write"
  /\ \E i \in Pos : /\ log[i].ev = "run"
                    /\ log[i].fn = "EffCond"
                    /\ log[i].prev = {"c", "a"}
                    /\ comps[log[i].c].lastReads = {"c", "b"}
                    /\ log[i].c \notin Range(subscribers["a"])

\* C3: batch coalescing - an effect subscribed to two signals that a batch's
\* body both changes runs exactly once because of the batch, after the body has
\* finished, and every value it reads in that run is the final one.
C3_BatchCoalesces ==
  op.name = "batch" =>
    \A c \in 1..Len(comps) :
      (\E i \in ChangedFor(c), j \in ChangedFor(c) : log[i].sig # log[j].sig)
        => /\ Cardinality(RunsOf(c)) = 1
           /\ \A r \in RunsOf(c) : \E e \in Pos : BodyEndAt(e) /\ e < r
           /\ \A k \in ReadsOf(c) : log[k].val = value[log[k].sig]

\* the batch changed a and b, and the effect that reads both ran once
C3_Witness ==
  /\ op.name = "batch"
  /\ \E c \in 1..Len(comps) :
       /\ comps[c].fn = "EffAB"
       /\ \E i \in ChangedFor(c), j \in ChangedFor(c) :
            log[i].sig = "a" /\ log[j].sig = "b"
       /\ Cardinality(RunsOf(c)) = 1

\* C4: microtask-deferred engine - a write whose candidate value is not
\* Object.is-equal to the stored value stores the candidate and adds every
\* subscribed computation to the pending set.
C4_DeferredWriteStores ==
  \A i \in Pos :
    (op.name = "write" /\ log[i].ev = "write" /\ log[i].old # log[i].new)
      => /\ value[log[i].sig] = log[i].new
         /\ Range(log[i].subs) \subseteq Range(pendingComputations)

\* C5: microtask-deferred engine - a write whose candidate value is
\* Object.is-equal to the stored value adds nothing to pendingComputations and
\* schedules no flush.
C5_DeferredEqualWriteIsNoOp ==
  \A i \in Pos :
    (op.name = "write" /\ log[i].ev = "write" /\ log[i].old = log[i].new)
      => /\ pendingComputations = log[i].pending
         /\ pendingFlush = log[i].flush

\* C6: synchronous engine - in the propagation of one non-batched write or one
\* batch flush every computation runs at most once.
C6_AtMostOneRunPerPass ==
  op.name \in {"write", "batch"} =>
    \A c \in 1..Len(comps) : Cardinality(RunsOf(c)) <= 1

\* C7: glitch freedom - in every run caused by a write or a batch, the effect
\* that reads two memos of one signal reads the values the memos have when the
\* propagation is over.
C7_NoGlitch ==
  op.name \in {"write", "batch"} =>
    \A i \in Pos :
      (log[i].ev = "read" /\ log[i].c # 0 /\ comps[log[i].c].fn = "EffMM")
        => log[i].val = value[log[i].sig]

C10_ChildCleanupsFirst ==
  \A i \in Pos, j \in Pos :
    (/\ log[i].ev = "cleanup"
     /\ log[j].ev = "cleanup"
     /\ log[i].tear = log[j].tear
     /\ comps[log[i].c].owner = log[j].c)
      => i < j

\* the cleanups of computation c invoked during the call that just ended
CleanupsOf(c) == {i \in 1..Len(log') : log'[i].ev = "cleanup" /\ log'[i].c = c}

\* the positions where a teardown of c was over: fn started again, or c was disposed
TeardownEnds(c) ==
  {i \in 1..Len(log') : log'[i].ev \in {"run", "disposed"} /\ log'[i].c = c}

MemoComps == {c \in 1..Len(comps) : comps[c].fn \in {"Memo1", "Memo2"}}

\* C12: memo notification precision - a re-evaluation of a memo that computes
\* the cached value again returns without running or queueing anything, and
\* every run of the effect that reads only memos happens inside a write to a
\* memo it subscribed to that changed the memo's value.
C12_MemoNotifiesOnChange ==
  /\ \A i \in Pos :
       (log[i].ev = "write" /\ log[i].sig \in MemoSigs /\ log[i].old = log[i].new)
         => /\ i < Len(log)
            /\ log[i + 1].ev = "written"
            /\ log[i + 1].sig = log[i].sig
  /\ \A i \in Pos :
       (op.name \in {"write", "batch"} /\ log[i].ev = "run" /\ log[i].fn = "EffMM")
         => \E j \in 1..(i - 1) :
              /\ log[j].ev = "write"
              /\ log[j].sig \in MemoSigs
              /\ log[j].old # log[j].new
              /\ log[i].c \in Range(log[j].subs)
              /\ \A k \in (j + 1)..(i - 1) :
                   ~(log[k].ev = "written" /\ log[k].sig = log[j].sig)

\* a write to b while a is 0: the memo a() * b() was evaluated again, found 0
\* again, and its subscribed effect did not run
C12_Witness ==
  /\ op.name = "write"
  /\ op.sig = "b"
  /\ \E r \in Pos, i \in Pos :
       /\ log[r].ev = "run"
       /\ log[r].fn = "Memo2"
       /\ r < i
       /\ log[i].ev = "write"
       /\ log[i].sig = "m2"
       /\ log[i].old = log[i].new
       /\ log[i].subs # << >>
  /\ \A i \in Pos : log[i].ev = "run" => log[i].fn = "Memo2"

\* the signals computation c had read in its latest run when the call started
ReadBefore(c) ==
  IF RunsOf(c) # {}
  THEN log[CHOOSE i \in RunsOf(c) : \A j \in RunsOf(c) : i <= j].prev
  ELSE comps[c].lastReads

\* C13: memo caching - a memo's function is evaluated once by createMemo, once
\* by each non-batched write that changes a signal it read in its latest
\* evaluation, and by no other write and no read; a read of the memo returns
\* the cached value, which is the function's value for the current signals.
C13_MemoCaching ==
  /\ op.name = "createMemo"
       => Cardinality({i \in Pos : log[i].ev = "run"}) = 1
  /\ op.name = "write"
       => \A c \in MemoComps :
            Cardinality(RunsOf(c))
              = IF log[1].old # log[1].new /\ op.sig \in ReadBefore(c) THEN 1 ELSE 0
  /\ op.name = "read"
       => /\ \A i \in Pos : log[i].ev # "run"
          /\ log[1].val = value[op.sig]
  /\ \A m \in MemoSigs \cap created : value[m] = MemoFn(m, value)

\* a read of the memo a() * b() after both signals were raised to 1
C13_Witness ==
  /\ op.name = "read"
  /\ op.sig = "m2"
  /\ log[1].val = 1
  /\ value["a"] = 1
  /\ value["b"] = 1

\* C14: dispose is idempotent - however dispose is called, one call after
\* another or from a cleanup that runs while the root is being disposed, no
\* cleanup is invoked a second time and every call of dispose returns.
C14_DisposeIdempotent ==
  /\ \A i \in Pos : log[i].ev = "cleanup" => ~log[i].again
  /\ op.name = "dispose" => ~op.threw

\* C17: subscription mirror - in every state between two calls, computation c
\* is in the subscriber set of signal s exactly when s is in c.sources.
C17_SubscriptionMirror ==
  \A c \in 1..Len(comps), s \in Sigs :
    c \in Range(subscribers[s]) <=> s \in comps[c].sources

\* the effect that disposed its own root while running read b afterwards: it
\* is disposed, and b and its sources still mirror each other
C17_Witness ==
  \E c \in 1..Len(comps) :
    /\ comps[c].fn = Null
    /\ comps[c].sources = {"b"}
    /\ c \in Range(subscribers["b"])

\* C18: a disposed computation is in no subscriber set - in every state
\* between two calls, no signal's subscriber set holds a computation whose fn
\* is null.
C18_DisposedUnsubscribed ==
  \A c \in 1..Len(comps), s \in Sigs :
    comps[c].fn = Null => c \notin Range(subscribers[s])

\* C15: nested batches coalesce - during a batch that holds another batch no
\* computation runs before the body of the outermost batch has ended (not at
\* a write, not at the exit of the inner batch); then every computation that
\* a changing write of the outer or the inner body queued runs, once, and the
\* queue is left empty.
C15_NestedBatchesCoalesce ==
  op.name = "nestedBatch" =>
    /\ \A r \in Pos : log[r].ev = "run" => \E e \in 1..(r - 1) : BodyEndAt(e)
    /\ \A c \in 1..Len(comps) :
         Cardinality(RunsOf(c)) = IF ChangedFor(c) # {} THEN 1 ELSE 0
    /\ batchQueue = << >>
    /\ batchDepth = 0

\* one effect was queued by a changing write of the outer body and by one of
\* the inner body, and ran once
C15_Witness ==
  /\ op.name = "nestedBatch"
  /\ \E c \in 1..Len(comps) :
       /\ \E i \in ChangedFor(c), j \in ChangedFor(c) :
            log[i].depth = 1 /\ log[j].depth = 2
       /\ Cardinality(RunsOf(c)) = 1

\* the positions where computation c was disposed during the call
DisposedAt(c) == {i \in Pos : log[i].ev = "disposed" /\ log[i].c = c}

\* C16: propagation completes before write returns - when a non-batched write
\* that changed a signal has returned, every computation that subscribed to
\* the signal when the write was made has run again or was disposed during the
\* write, every read of the signal in those runs returned the new value, and
\* nothing is left queued to run later.
C16_WriteCompletesPropagation ==
  (op.name = "write" /\ log[1].old # log[1].new) =>
    /\ \A c \in Range(log[1].subs) : RunsOf(c) # {} \/ DisposedAt(c) # {}
    /\ \A i \in Pos :
         (log[i].ev = "read" /\ log[i].sig = op.sig) => log[i].val = log[1].new
    /\ log[Len(log)].ev = "written"
    /\ log[Len(log)].sig = op.sig
    /\ batchQueue = << >>

\* a write to a with two subscribers: the unmounting effect ran and disposed
\* the root, whose effect was disposed before its turn came
C16_Witness ==
  /\ op.name = "write"
  /\ log[1].old # log[1].new
  /\ Len(log[1].subs) = 2
  /\ \E c \in Range(log[1].subs) : RunsOf(c) = {} /\ DisposedAt(c) # {}
  /\ \E c \in Range(log[1].subs) : RunsOf(c) # {}

\* C19: exception safety of the tracking context - when a function run by
\* the engine has thrown, the listener and the owner are what they were before
\* the call: null at the top level, and the catching effect inside the effect
\* that caught the exception of an effect it created. What is read or
\* registered afterwards goes to that context, never to the failed computation.
C19_ContextRestoredOnThrow ==
  /\ listener = 0
  /\ owner = 0
  /\ \A c \in 1..Len(comps) :
       comps[c].fn = "Catcher"
         => /\ comps[c].owner = 0
            /\ comps[c].lastReads = {"c"}
            /\ {s \in Sigs : c \in Range(subscribers[s])} = {"c"}
            /\ Fns(comps[c].cleanups) = << "kC" >>
  /\ \A c \in 1..Len(comps) :
       comps[c].fn = "EffThrow"
         => /\ comps[c].owner = 0 \/ comps[comps[c].owner].fn = "Catcher"
            /\ comps[c].sources \subseteq {"a"}
            /\ comps[c].cleanups = << >>
            /\ comps[c].owned = << >>
  /\ op.name = "read" => log[1].c = 0

\* a write to a that threw to its caller out of the run of an effect, in a
\* state that also holds the catching effect
C19_Witness ==
  /\ op.name = "write"
  /\ op.threw
  /\ \E i \in Pos : log[i].ev = "run" /\ log[i].fn = "EffThrow"
  /\ \E c \in 1..Len(comps) : comps[c].fn = "Catcher" /\ comps[c].owned # << >>

\* C20: untrack - a read inside untrack has no listener and leaves no
\* subscription, so a write to the signal read there alone does not re-run the
\* effect; when untrack returns or throws, the listener and the owner are
\* those of its caller, reads made later in the run are tracked, and what was
\* registered inside untrack belongs to the running effect.
C20_UntrackInvisible ==
  /\ \A c \in 1..Len(comps) :
       comps[c].fn = "EffUntr"
         => /\ {s \in Sigs : c \in Range(subscribers[s])} = {"a", "c"}
            /\ comps[c].lastReads = {"a", "c"}
            /\ Fns(comps[c].cleanups) = << "kU" >>
  /\ (op.name = "write" /\ op.sig = "b")
       => \A i \in Pos : log[i].ev = "run" => log[i].fn # "EffUntr"
  /\ \A i \in Pos, j \in Pos :
       (/\ log[i].ev = "untrack"
        /\ log[j].ev = "untrackEnd"
        /\ i < j
        /\ \A k \in (i + 1)..(j - 1) : log[k].ev \notin {"untrack", "untrackEnd"})
         => /\ log[j].listener = log[i].listener
            /\ log[j].owner = log[i].owner
            /\ \A k \in (i + 1)..(j - 1) : log[k].ev = "read" => log[k].c = 0
  /\ \A i \in Pos : (log[i].ev = "read" /\ log[i].sig = "c") => log[i].c # 0

\* a write re-ran the effect while b was 1: the function of untrack read b and
\* threw, and the read of c that followed was tracked
C20_Witness ==
  /\ op.name = "write"
  /\ \E j \in Pos, k \in Pos :
       /\ log[j].ev = "untrackEnd"
       /\ log[j].threw
       /\ j < k
       /\ log[k].ev = "read"
       /\ log[k].sig = "c"
       /\ log[k].c # 0

\* the roots created by createRoot(RN): the owner of each live EffN
InnerRoots == {comps[e].owner : e \in {x \in 1..Len(comps) : comps[x].fn = "EffN"}}

\* the computations that called createRoot(RN): the effects EffRoot and the
\* roots RO
RootCallers ==
  {c \in 1..Len(comps) : comps[c].fn = "EffRoot"}
    \cup ({handles["RO"]} \ ({0} \cup dead))

\* C21: createRoot scopes the owner. While the function of a root runs the
\* owner is the new root: the effect it creates is in the root's owned list
\* and its onCleanup lands in the root's cleanup list. When createRoot has
\* returned or thrown the owner is the one from before the call: at top level
\* none, and inside an effect or inside another root that effect or root,
\* which owns the new root and receives the onCleanup registered after the
\* call, while the new root receives none of it.
C21_CreateRootScopesOwner ==
  /\ listener = 0
  /\ owner = 0
  /\ \A e \in 1..Len(comps) :
        comps[e].fn = "EffN" =>
          /\ comps[e].owner # 0
          /\ comps[comps[e].owner].fn = Null
          /\ comps[comps[e].owner].owned = << e >>
          /\ Fns(comps[comps[e].owner].cleanups) = << "kN" >>
  /\ \A r \in InnerRoots : comps[r].owner \in RootCallers
  /\ \A c \in RootCallers :
        /\ Len(comps[c].owned) = 1
        /\ comps[comps[c].owned[1]].owner = c
        /\ comps[c].owned[1] \in InnerRoots
        /\ Fns(comps[c].cleanups) = IF comps[c].fn = "EffRoot" THEN << "kO" >>
                                     ELSE << "kRO" >>

\* an effect has re-run after a write to a, and the createRoot it called threw
\* (b is 1) and was caught; the effect owns the new root and has its cleanup
C21_Witness ==
  /\ op.name = "write"
  /\ op.sig = "a"
  /\ \E i \in 1..Len(log) : log[i].ev = "caught"
  /\ \E c \in RootCallers :
        /\ comps[c].fn = "EffRoot"
        /\ RunsOf(c) # {}
        /\ comps[c].owned[1] \in InnerRoots
        /\ Fns(comps[c].cleanups) = << "kO" >>

\* C22: in the microtask-deferred engine createReactiveRoot restores the
\* previous owner: an effect that calls createReactiveRoot and then onCleanup(kO)
\* has kO in its own cleanup list after each of its runs.
C22_ReactiveRootRestoresOwner ==
  \A c \in 1..Len(comps) :
    comps[c].fn = "EffRR" => Fns(comps[c].cleanups) = << "kO" >>

\* the place of computation c in the queue the flush copied
QueuePos(c) == CHOOSE k \in 1..Len(log[1].queue) : log[1].queue[k] = c

\* computation c was disposed when the flush began, or was disposed during the
\* flush before the run of a computation that stood before it in the queue
\* had ended
DisposedBeforeTurn(c) ==
  \/ c \in log[1].inert
  \/ \E d \in DisposedAt(c) :
    \E e \in Range(log[1].queue) :
      /\ QueuePos(e) < QueuePos(c)
      /\ \E i \in Pos : log[i].ev = "end" /\ log[i].c = e /\ d < i

C24_OnCleanupWithoutOwner ==
  [][/\ op'.name = "onCleanup" =>
          /\ ~op'.threw
          /\ UNCHANGED << value, subscribers, comps, listener, owner, batchDepth,
                          batchQueue, pendingFlush, pendingComputations,
                          microtasks, handles >>
     /\ \A i \in 1..Len(log') : log'[i].ev = "cleanup" => log'[i].fn # "kTop"
     /\ \A c \in 1..Len(comps') :
          \A k \in 1..Len(comps'[c].cleanups) : comps'[c].cleanups[k].fn # "kTop"]_vars

\* onCleanup was called at top level while an effect with a registered cleanup
\* and an owned effect exists and computations wait for the flush
C24_Witness ==
  /\ op.name = "onCleanup"
  /\ \E c \in 1..Len(comps) : comps[c].cleanups # << >> /\ comps[c].owned # << >>
  /\ pendingComputations # << >>

\* the computations created by the runs of computation o
Kids(o) == {c \in 1..Len(comps) : comps[c].owner = o}

\* the computation the latest run of o created
Latest(o) == CHOOSE c \in Kids(o) : \A d \in Kids(o) : d <= c

\* C25: re-running an effect does not accumulate children - however often the
\* outer effect has re-run, it owns exactly the inner effect its latest run
\* created, that one is the only subscriber of b, every inner effect of an
\* earlier run is disposed (fn null, no sources, in no subscriber set), and a
\* write that changes b runs exactly one computation, the latest inner effect.
C25_NoAccumulatedChildren ==
  /\ \A o \in 1..Len(comps) :
        comps[o].fn = "Outer" =>
          /\ comps[o].owned = << Latest(o) >>
          /\ comps[Latest(o)].fn = "Inner"
          /\ subscribers["b"] = << Latest(o) >>
          /\ \A c \in Kids(o) \ {Latest(o)} :
                /\ comps[c].fn = Null
                /\ comps[c].sources = {}
                /\ \A s \in Sigs : c \notin Range(subscribers[s])
          /\ (op.name = "write" /\ op.sig = "b" /\ log[1].old # log[1].new) =>
                /\ Cardinality({i \in Pos : log[i].ev = "run"}) = 1
                /\ RunsOf(Latest(o)) # {}
  /\ Cardinality({c \in 1..Len(comps) : comps[c].fn = "Inner"}) <= 1

\* the outer effect has re-run twice, and a write that changed b has just run
\* the one inner effect that is left
C25_Witness ==
  /\ op.name = "write"
  /\ op.sig = "b"
  /\ log[1].old # log[1].new
  /\ \E o \in 1..Len(comps) :
        /\ comps[o].fn = "Outer"
        /\ Cardinality(Kids(o)) >= 3
        /\ RunsOf(Latest(o)) # {}

\* C26: no notification is lost in a batch flush - when a batch has ended,
\* also one whose body threw, every computation that was added to the batch
\* queue during it has been run after the body ended, also when another
\* queued computation threw during the flush (nothing is disposed here).
C26_NoNotificationLost ==
  op.name \in {"batch", "batchThrow"} =>
    \A i \in Pos :
      log[i].ev = "enqueue" =>
        \A c \in Range(log[i].q) :
          \E r \in RunsOf(c) : \E e \in Pos : BodyEndAt(e) /\ e < r

\* C27: reads of a memo are never stale - a read of a memo made inside a batch,
\* after the batch wrote a signal the memo depends on and before the flush,
\* returns the memo's function applied to the signals' new values.
C27_MemoReadNeverStale ==
  op.name = "batchRead" =>
    \A i \in Pos :
      (/\ log[i].ev = "read"
       /\ log[i].c = 0
       /\ log[i].sig = op.memo
       /\ \E e \in Pos : BodyEndAt(e) /\ i < e)
        => log[i].val = MemoFn(op.memo, value)

\* the values the reads made by the caller itself returned, in order
CallerReads ==
  [i \in 1..Len(SelectSeq(log', LAMBDA e : e.ev = "read" /\ e.c = 0)) |->
     SelectSeq(log', LAMBDA e : e.ev = "read" /\ e.c = 0)[i].val]

\* C28: writes take effect immediately and in order - a literal write leaves
\* the signal at the written value, an updater write at its function applied
\* to the value the previous write left, no write touches another signal, and
\* a read returns the stored value; inside a batch, before the flush, a read
\* after each of two increments c => c + 1 returns the value raised by one
\* and by two, the batch leaves it raised by two, and the effects re-run by
\* the flush read that value.
C28_WritesImmediateInOrder ==
  [][/\ op'.name \in {"write", "batchIncs"} =>
          \A s \in PlainSigs \ {op'.sig} : value'[s] = value[s]
     /\ (op'.name = "write" /\ op'.next = "literal") =>
          /\ log'[1].old = value[op'.sig]
          /\ value'[op'.sig] = log'[1].new
     /\ (op'.name = "write" /\ op'.next = "updater") =>
          value'[op'.sig] = Updater(value[op'.sig])
     /\ op'.name = "read" =>
          /\ log'[1].val = value[op'.sig]
          /\ value' = value
     /\ op'.name = "batchIncs" =>
          /\ CallerReads = << value[op'.sig] + 1, value[op'.sig] + 2 >>
          /\ value'[op'.sig] = value[op'.sig] + 2
          /\ \A i \in 1..Len(log') :
               (log'[i].ev = "read" /\ log'[i].c # 0) =>
                 log'[i].val = value'[log'[i].sig]]_vars

\* a second batch of two increments has raised a signal from 2 to 4, and the
\* flush re-ran the effect that reads it
C28_Witness ==
  /\ op.name = "batchIncs"
  /\ value[op.sig] = 4
  /\ \E i \in Pos : log[i].ev = "run"

\* C29: propagation terminates - in a graph where no computation writes a
\* signal it reads, directly or through memos and effects, every write and
\* every batch returns: without an exception, with listener
\* and owner null as before the call, no batch open and nothing left queued,
\* every run that started has ended, and every computation has run at most
\* once for each write of the call that changed a signal it was subscribed to.
C29_PropagationTerminates ==
  /\ listener = 0
  /\ owner = 0
  /\ op.name \in {"write", "batch"} =>
        /\ ~op.threw
        /\ batchDepth = 0
        /\ batchQueue = << >>
        /\ Cardinality({i \in Pos : log[i].ev = "run"})
             = Cardinality({i \in Pos : log[i].ev = "end"})
        /\ \A c \in 1..Len(comps) :
              Cardinality(RunsOf(c)) <= Cardinality(ChangedFor(c))

\* a write to a has returned after the memo, the copying effect and the two
\* reading effects ran, one of them twice: once for a and once for what the
\* chain wrote
C29_Witness ==
  /\ op.name = "write"
  /\ Cardinality({log[i].c : i \in {k \in Pos : log[k].ev = "run"}}) = 4
  /\ \E c \in 1..Len(comps) : Cardinality(RunsOf(c)) = 2

====
